---- MODULE Spec2Model ----
(***************************************************************************)
(* A model of src/data_extractor.py: the DataExtractor object (its expired *)
(* set, its loaded data), load_expired_invoices, load_data and             *)
(* transform_data.                                                         *)
(*                                                                         *)
(* Python values are records [t, v]: t is the type ("int", "str", "none",  *)
(* or "missing" for a key that the mapping does not hold) and v a sequence *)
(* of integers: <<n>> for the int n, the code points for a str.            *)
(* A Python str is the sequence of its code points, so that str(), int(),  *)
(* strip(), isdigit() and the ordering of strings are computed, not        *)
(* assumed.  A call's outcome is [op, exc, rows]: the exception it raised  *)
(* ("" for none) and the rows it returned.                                 *)
(***************************************************************************)
EXTENDS Integers, Sequences, FiniteSets

VARIABLES
    expired_file,       \* the expired-invoices file: [exists, lines]
    pickle_file,        \* what unpickling the data file gives: [kind, recs]
    expired_invoices,   \* self.expired_invoices
    data,               \* self.data: [kind, recs], kind "none" | "int" | "list"
    outcome,            \* what the most recent call raised or returned
    ever_loaded,        \* history: some load_data call has succeeded
    last_load,          \* history: "never", or how the latest load_data call ended
    calls,              \* history: transform_data calls since the last load_data call
    first_outcome       \* history: the outcome of the first of those calls

vars == <<expired_file, pickle_file, expired_invoices, data, outcome, ever_loaded, last_load,
          calls, first_outcome>>

\* ------------------------------------------------------------------ bounds
MaxLines == 2       \* lines of the expired-invoices file
MaxRecords == 2     \* records of a pickled list
MaxItems == 2       \* items of one record
MaxCalls == 2       \* transform_data calls after one load_data call

\* ----------------------------------------------------------- Python values
IntV(n) == [t |-> "int", v |-> <<n>>]
StrV(s) == [t |-> "str", v |-> s]
NoneV == [t |-> "none", v |-> <<>>]
MissingV == [t |-> "missing", v |-> <<>>]

NoExc == ""
\* the two ValueErrors of this code: the one line 46 raises, and int()'s
NotLoaded == "ValueError: Data not loaded. Call load_data() first."
InvalidLiteral == "ValueError: invalid literal for int()"

IsDigitChar(c) == c >= 48 /\ c <= 57
\* str.strip() and int() treat these as whitespace: tab, LF, VT, FF, CR, space
IsSpaceChar(c) == c \in {9, 10, 11, 12, 13, 32}

RECURSIVE Digits(_)
\* the decimal digits of a natural number, as code points
Digits(n) == IF n < 10 THEN <<48 + n>> ELSE Digits(n \div 10) \o <<48 + (n % 10)>>

\* str(n) for an int
IntRepr(n) == IF n < 0 THEN <<45>> \o Digits(-n) ELSE Digits(n)

\* str(value): the characters of a str, the decimal form of an int, "None"
PyStr(val) ==
    CASE val.t = "str" -> val.v
      [] val.t = "int" -> IntRepr(val.v[1])
      [] OTHER -> <<78, 111, 110, 101>>

\* ensure_str(value): str(value)
ensure_str(value) == PyStr(value)

RECURSIVE LStrip(_)
LStrip(s) == IF s # <<>> /\ IsSpaceChar(Head(s)) THEN LStrip(Tail(s)) ELSE s

RECURSIVE RStrip(_)
RStrip(s) ==
    IF s # <<>> /\ IsSpaceChar(s[Len(s)]) THEN RStrip(SubSeq(s, 1, Len(s) - 1)) ELSE s

\* str.strip()
Strip(s) == RStrip(LStrip(s))

\* what int() reads as a number: non-empty, decimal digits only
IsDecimal(s) == s # <<>> /\ \A i \in 1..Len(s) : IsDigitChar(s[i])

\* str.isdigit(): non-empty and every character a digit; the superscripts
\* U+00B2, U+00B3 and U+00B9 are digits to isdigit() and not to int()
IsDigit(s) == s # <<>> /\ \A i \in 1..Len(s) : IsDigitChar(s[i]) \/ s[i] \in {178, 179, 185}

RECURSIVE DigitsValue(_)
DigitsValue(s) ==
    IF s = <<>> THEN 0 ELSE 10 * DigitsValue(SubSeq(s, 1, Len(s) - 1)) + (s[Len(s)] - 48)

\* the number read from a stripped str: one sign, then decimal digits
IntOfStripped(t) ==
    LET signed == t # <<>> /\ Head(t) \in {43, 45}
        body == IF signed THEN Tail(t) ELSE t
    IN  IF IsDecimal(body)
        THEN [exc |-> NoExc,
              n |-> IF signed /\ Head(t) = 45 THEN -DigitsValue(body) ELSE DigitsValue(body)]
        ELSE [exc |-> InvalidLiteral, n |-> 0]

\* int(x) for a str: surrounding whitespace and one sign are accepted
IntOfStr(s) == IntOfStripped(Strip(s))

\* int(mapping[key]): KeyError when the key is absent, TypeError for None
PyInt(val) ==
    CASE val.t = "int" -> [exc |-> NoExc, n |-> val.v[1]]
      [] val.t = "str" -> IntOfStr(val.v)
      [] val.t = "none" -> [exc |-> "TypeError", n |-> 0]
      [] OTHER -> [exc |-> "KeyError", n |-> 0]

RECURSIVE StrLess(_, _)
\* a < b for two str: by code point, a proper prefix first
StrLess(a, b) ==
    IF b = <<>> THEN FALSE
    ELSE IF a = <<>> THEN TRUE
    ELSE IF Head(a) # Head(b) THEN Head(a) < Head(b)
    ELSE StrLess(Tail(a), Tail(b))

\* the pair (a1, a2) <= (b1, b2) of str, as Python compares tuples
KeyLeq(a1, a2, b1, b2) ==
    \/ StrLess(a1, b1)
    \/ a1 = b1 /\ (a2 = b2 \/ StrLess(a2, b2))

\* ------------------------------------------------------------------ dates
IsLeap(y) == (y % 4 = 0 /\ y % 100 # 0) \/ y % 400 = 0

DaysIn(y, m) ==
    CASE m \in {4, 6, 9, 11} -> 30
      [] m = 2 -> IF IsLeap(y) THEN 29 ELSE 28
      [] OTHER -> 31

ValidDate(y, m, d) == m >= 1 /\ m <= 12 /\ d >= 1 /\ d <= DaysIn(y, m)

AllDigits(s, from, to) == \A i \in from..to : IsDigitChar(s[i])

\* dateutil.parser.parse on the formats of this model's inputs: YYYY-MM-DD, and
\* A/B/YYYY read month first unless only day first gives a date.  Anything that is
\* not a str is a TypeError, any other str a ParserError (a ValueError: the
\* handler of line 57 catches both).
parse(val) ==
    IF val.t # "str" THEN [exc |-> "TypeError", y |-> 0, m |-> 0, d |-> 0]
    ELSE LET s == val.v
             bad == [exc |-> "ParserError", y |-> 0, m |-> 0, d |-> 0]
         IN  IF Len(s) = 10 /\ s[5] = 45 /\ s[8] = 45
                /\ AllDigits(s, 1, 4) /\ AllDigits(s, 6, 7) /\ AllDigits(s, 9, 10)
             THEN LET y == DigitsValue(SubSeq(s, 1, 4))
                      m == DigitsValue(SubSeq(s, 6, 7))
                      d == DigitsValue(SubSeq(s, 9, 10))
                  IN  IF ValidDate(y, m, d) THEN [exc |-> NoExc, y |-> y, m |-> m, d |-> d]
                      ELSE bad
             ELSE IF Len(s) = 10 /\ s[3] = 47 /\ s[6] = 47
                     /\ AllDigits(s, 1, 2) /\ AllDigits(s, 4, 5) /\ AllDigits(s, 7, 10)
             THEN LET a == DigitsValue(SubSeq(s, 1, 2))
                      b == DigitsValue(SubSeq(s, 4, 5))
                      y == DigitsValue(SubSeq(s, 7, 10))
                  IN  IF ValidDate(y, a, b) THEN [exc |-> NoExc, y |-> y, m |-> a, d |-> b]
                      ELSE IF ValidDate(y, b, a)
                      THEN [exc |-> NoExc, y |-> y, m |-> b, d |-> a]
                      ELSE bad
             ELSE bad

\* zero-padded decimal of width w
RECURSIVE Pad(_, _)
Pad(n, w) == IF w = 0 THEN <<>> ELSE Pad(n \div 10, w - 1) \o <<48 + (n % 10)>>

\* strftime("%Y-%m-%d")
strftime(p) == Pad(p.y, 4) \o <<45>> \o Pad(p.m, 2) \o <<45>> \o Pad(p.d, 2)

\* lines 55-60: record['created_on'] raises KeyError when the key is absent, and
\* `except (ValueError, TypeError)` does not catch it
created_on_parsed(p) ==
    IF p.exc = NoExc THEN [exc |-> NoExc, s |-> strftime(p)] ELSE [exc |-> NoExc, s |-> <<>>]

created_on_of(record) ==
    IF record.created_on.t = "missing" THEN [exc |-> "KeyError", s |-> <<>>]
    ELSE created_on_parsed(parse(record.created_on))

\* ------------------------------------------------------ load_expired_invoices
NoFile == [exists |-> FALSE, lines |-> <<>>]

\* each line of the file is read with its newline and stripped
load_expired_invoices(file) ==
    IF ~file.exists THEN {}
    ELSE {Strip(file.lines[i] \o <<10>>) : i \in 1..Len(file.lines)}

\* ------------------------------------------------------------ transform_data
type_conversion(val) ==
    IF val.t # "int" THEN "Other"
    ELSE CASE val.v[1] = 0 -> "Material"
           [] val.v[1] = 1 -> "Equipment"
           [] val.v[1] = 2 -> "Service"
           [] OTHER -> "Other"

\* one term of the generator of lines 89-90: `and` reads quantity first and the
\* unit price only when the quantity is all digits
\* int(unit_price) * int(quantity), or what the first failing int() raises
product(unit_price, quantity) ==
    IF unit_price.exc # NoExc THEN [exc |-> unit_price.exc, n |-> 0]
    ELSE IF quantity.exc # NoExc THEN [exc |-> quantity.exc, n |-> 0]
    ELSE [exc |-> NoExc, n |-> unit_price.n * quantity.n]

total_term(i) ==
    IF i.quantity.t = "missing" THEN [exc |-> "KeyError", n |-> 0]
    ELSE IF ~IsDigit(PyStr(i.quantity)) THEN [exc |-> NoExc, n |-> 0]
    ELSE IF i.unit_price.t = "missing" THEN [exc |-> "KeyError", n |-> 0]
    ELSE IF ~IsDigit(PyStr(i.unit_price)) THEN [exc |-> NoExc, n |-> 0]
    ELSE product(PyInt(i.unit_price), PyInt(i.quantity))

\* the sum goes left to right: the first term that raises ends it
add_terms(h, r) ==
    IF h.exc # NoExc THEN h
    ELSE IF r.exc # NoExc THEN r
    ELSE [exc |-> NoExc, n |-> h.n + r.n]

RECURSIVE invoice_total(_)
\* lines 89-90: the sum over the record's items whose two fields are all digits
invoice_total(items) ==
    IF items = <<>> THEN [exc |-> NoExc, n |-> 0]
    ELSE add_terms(total_term(Head(items)), invoice_total(Tail(items)))

RECURSIVE Gcd(_, _)
Gcd(a, b) == IF b = 0 THEN a ELSE Gcd(b, a % b)

Abs(n) == IF n < 0 THEN -n ELSE n

\* the quotient n / d (d # 0) as a fraction in lowest terms, denominator positive
Fraction(n, d) ==
    LET g == Gcd(Abs(n), Abs(d))
        sgn == IF d < 0 THEN -1 ELSE 1
    IN  [num |-> sgn * (n \div g), den |-> sgn * (d \div g)]

\* line 100
percentage_in_invoice(total_price, total) ==
    IF total # 0 THEN Fraction(total_price, total) ELSE [num |-> 0, den |-> 1]

\* the membership test on the id as given, not coerced to str
is_expired_uncoerced(record, expired) == record.id.t = "str" /\ record.id.v \in expired

\* line 62
is_expired_of(record, expired) == ensure_str(record.id) \in expired

\* lines 74-103 for one item, given int(unit_price), int(quantity) and the
\* invoice total: a row, a skipped item (emit FALSE), or an exception
item_row_of(record, created_on, expired, item, unit_price, quantity, total) ==
    LET skip == [exc |-> NoExc, emit |-> FALSE, row |-> <<>>]
        raise(e) == [exc |-> e, emit |-> FALSE, row |-> <<>>]
    IN  IF unit_price.exc = InvalidLiteral THEN skip
        ELSE IF unit_price.exc # NoExc THEN raise(unit_price.exc)
        ELSE IF item.type.t = "missing" THEN raise("KeyError")
        ELSE IF quantity.exc = InvalidLiteral THEN skip
        ELSE IF quantity.exc # NoExc THEN raise(quantity.exc)
        ELSE IF total.exc # NoExc THEN raise(total.exc)
        ELSE [exc |-> NoExc, emit |-> TRUE,
              row |-> [invoice_id |-> ensure_str(record.id),
                       created_on |-> created_on,
                       invoiceitem_id |-> ensure_str(item.id),
                       invoiceitem_name |-> item.name,
                       type |-> type_conversion(item.type),
                       unit_price |-> unit_price.n,
                       total_price |-> unit_price.n * quantity.n,
                       percentage_in_invoice |->
                           percentage_in_invoice(unit_price.n * quantity.n, total.n),
                       is_expired |-> is_expired_of(record, expired)]]

\* lines 69-103 for one item
item_row(record, created_on, expired, item) ==
    item_row_of(record, created_on, expired, item, PyInt(item.unit_price),
                PyInt(item.quantity), invoice_total(record.items.list))

\* the rows of the items behind one item: the first exception ends the loop
append_rows(h, r) ==
    IF h.exc # NoExc THEN [exc |-> h.exc, rows |-> <<>>]
    ELSE IF r.exc # NoExc THEN [exc |-> r.exc, rows |-> <<>>]
    ELSE [exc |-> NoExc, rows |-> (IF h.emit THEN <<h.row>> ELSE <<>>) \o r.rows]

RECURSIVE items_rows(_, _, _, _)
\* the loop of line 68 over items: the rows appended, or the first exception
items_rows(record, created_on, expired, items) ==
    IF items = <<>> THEN [exc |-> NoExc, rows |-> <<>>]
    ELSE append_rows(item_row(record, created_on, expired, Head(items)),
                     items_rows(record, created_on, expired, Tail(items)))

\* lines 62-103 for one record, given its created_on
record_rows_of(record, created_on, expired) ==
    IF created_on.exc # NoExc THEN [exc |-> created_on.exc, rows |-> <<>>]
    ELSE IF ~record.items.present THEN [exc |-> NoExc, rows |-> <<>>]
    ELSE items_rows(record, created_on.s, expired, record.items.list)

\* lines 52-103 for one record
record_rows(record, expired) == record_rows_of(record, created_on_of(record), expired)

\* the rows of the records behind one record: the first exception ends the loop
extend_rows(h, r) ==
    IF h.exc # NoExc THEN h
    ELSE IF r.exc # NoExc THEN r
    ELSE [exc |-> NoExc, rows |-> h.rows \o r.rows]

RECURSIVE flat_data(_, _)
\* the loop of line 51 over records: flat_data as appended, or the first exception
flat_data(recs, expired) ==
    IF recs = <<>> THEN [exc |-> NoExc, rows |-> <<>>]
    ELSE extend_rows(record_rows(Head(recs), expired), flat_data(Tail(recs), expired))

\* the sort key of line 106
RowLeq(a, b) == KeyLeq(a.invoice_id, a.invoiceitem_id, b.invoice_id, b.invoiceitem_id)

\* r put into the sorted s behind every row whose key is not greater
InsertRow(s, r) ==
    LET k == Cardinality({i \in 1..Len(s) : RowLeq(s[i], r)})
    IN  SubSeq(s, 1, k) \o <<r>> \o SubSeq(s, k + 1, Len(s))

InsertByInvoiceId(s, r) ==
    LET k == Cardinality({i \in 1..Len(s) : ~StrLess(r.invoice_id, s[i].invoice_id)})
    IN  SubSeq(s, 1, k) \o <<r>> \o SubSeq(s, k + 1, Len(s))

RECURSIVE sorted_by_invoice_id(_)
\* a sort on invoice_id alone
sorted_by_invoice_id(rows) ==
    IF rows = <<>> THEN <<>>
    ELSE InsertByInvoiceId(sorted_by_invoice_id(SubSeq(rows, 1, Len(rows) - 1)),
                           rows[Len(rows)])

RECURSIVE sorted_rows(_)
\* sorted(flat_data, key=...): a stable sort
sorted_rows(rows) ==
    IF rows = <<>> THEN <<>>
    ELSE InsertRow(sorted_rows(SubSeq(rows, 1, Len(rows) - 1)), rows[Len(rows)])

\* lines 105-106: what the loops raised, or flat_data sorted
returned(flat) ==
    IF flat.exc # NoExc THEN [op |-> "transform_data", exc |-> flat.exc, rows |-> <<>>]
    ELSE [op |-> "transform_data", exc |-> NoExc, rows |-> sorted_rows(flat.rows)]

\* transform_data without the guard of lines 45-46: None is not iterable
transform_result_unguarded(d, expired) ==
    IF d.kind # "list" THEN [op |-> "transform_data", exc |-> "TypeError", rows |-> <<>>]
    ELSE returned(flat_data(d.recs, expired))

\* transform_data's outcome on the object's fields
transform_result(d, expired) ==
    IF d.kind = "none" THEN [op |-> "transform_data", exc |-> NotLoaded, rows |-> <<>>]
    ELSE IF d.kind # "list"
    THEN [op |-> "transform_data", exc |-> "TypeError", rows |-> <<>>]
    ELSE returned(flat_data(d.recs, expired))

\* ---------------------------------------------------------------- actions
NoData == [kind |-> "none", recs |-> <<>>]
NoOutcome == [op |-> "", exc |-> NoExc, rows |-> <<>>]

\* __init__ (lines 13-17), with the two files as they are on disk
InitWith(Files, Pickles) ==
    /\ expired_file \in Files
    /\ pickle_file \in Pickles
    /\ expired_invoices = load_expired_invoices(expired_file)
    /\ data = NoData
    /\ outcome = [op |-> "__init__", exc |-> NoExc, rows |-> <<>>]
    /\ ever_loaded = FALSE
    /\ last_load = "never"
    /\ calls = 0
    /\ first_outcome = NoOutcome

\* what load_data raises: open/pickle.load fail before the assignment of line 35,
\* len(self.data) of line 36 fails after it
load_data_exc(p) ==
    CASE p.kind = "unreadable" -> "FileNotFoundError"
      [] p.kind = "list" -> NoExc
      [] OTHER -> "TypeError"

\* load_data (lines 30-36)
load_data ==
    /\ data' = IF pickle_file.kind = "unreadable" THEN data
               ELSE [kind |-> pickle_file.kind, recs |-> pickle_file.recs]
    /\ outcome' = [op |-> "load_data", exc |-> load_data_exc(pickle_file), rows |-> <<>>]
    /\ ever_loaded' = (ever_loaded \/ load_data_exc(pickle_file) = NoExc)
    /\ last_load' = IF load_data_exc(pickle_file) = NoExc THEN "ok" ELSE "raised"
    /\ calls' = 0
    /\ first_outcome' = NoOutcome
    /\ UNCHANGED <<expired_file, pickle_file, expired_invoices>>

\* a transform_data that consumes the records it has read
transform_data_consuming ==
    /\ calls < MaxCalls
    /\ outcome' = transform_result(data, expired_invoices)
    /\ data' = IF data.kind = "list" THEN [kind |-> "list", recs |-> <<>>] ELSE data
    /\ calls' = calls + 1
    /\ first_outcome' = IF calls = 0 THEN outcome' ELSE first_outcome
    /\ UNCHANGED <<expired_file, pickle_file, expired_invoices, ever_loaded, last_load>>

\* transform_data (lines 38-106)
transform_data ==
    /\ calls < MaxCalls
    /\ outcome' = transform_result(data, expired_invoices)
    /\ calls' = calls + 1
    /\ first_outcome' = IF calls = 0 THEN outcome' ELSE first_outcome
    /\ UNCHANGED <<expired_file, pickle_file, expired_invoices, data, ever_loaded, last_load>>

\* the data file is written again between two calls
pickle_replaced(Pickles) ==
    /\ \E p \in Pickles : pickle_file' = p
    /\ UNCHANGED <<expired_file, expired_invoices, data, outcome, ever_loaded, last_load,
                   calls, first_outcome>>

\* ------------------------------------------------------------ input values
S7 == <<55>>
S9 == <<57>>
S10 == <<49, 48>>
S2 == <<50>>
IsoDate == StrV(<<50, 48, 50, 52, 45, 48, 49, 45, 49, 53>>)        \* "2024-01-15"
SlashDate == StrV(<<49, 53, 47, 48, 49, 47, 50, 48, 50, 52>>)      \* "15/01/2024"
JunkDate == StrV(<<110, 111, 116, 45, 97, 45, 100, 97, 116, 101>>) \* "not-a-date"

SeqsUpTo(S, n) == UNION {[1..k -> S] : k \in 0..n}

FilesOf(Lines) == {NoFile} \cup {[exists |-> TRUE, lines |-> l] : l \in SeqsUpTo(Lines, MaxLines)}

ItemsOf(ids, names, prices, types, quantities) ==
    [id : ids, name : names, unit_price : prices, type : types, quantity : quantities]

ItemLists(Items) == {[present |-> TRUE, list |-> l] : l \in SeqsUpTo(Items, MaxItems)}

\* the lists in which no item comes twice
DistinctItemLists(Items) ==
    {[present |-> TRUE, list |-> l] :
        l \in {m \in SeqsUpTo(Items, Cardinality(Items)) :
                   \A i, j \in 1..Len(m) : m[i] = m[j] => i = j}}

NoItems == [present |-> FALSE, list |-> <<>>]

RecordsOf(ids, dates, lists) == [id : ids, created_on : dates, items : lists]

ListsOf(Records) == {[kind |-> "list", recs |-> r] : r \in SeqsUpTo(Records, MaxRecords)}

\* a data file that cannot be read, and pickles of None and of an int
BadPickles == {[kind |-> k, recs |-> <<>>] : k \in {"unreadable", "none", "int"}}

\* ---------------------------------------------------------- specifications
\* The object's life: the data file is replaced between calls, by files that
\* cannot be read, by pickles that are no list, and by lists of three records:
\* one with two good items, one whose item has the unit price None, one with an
\* item priced "\u00b2".
Bolt == [id |-> IntV(1), name |-> "Bolt", unit_price |-> StrV(S10), type |-> IntV(0),
         quantity |-> StrV(<<51>>)]
Crane == [id |-> StrV(S2), name |-> "Crane", unit_price |-> IntV(3), type |-> IntV(7),
          quantity |-> IntV(2)]
Unpriced == [id |-> IntV(3), name |-> "Nut", unit_price |-> NoneV, type |-> IntV(2),
             quantity |-> StrV(S2)]

Squared == [id |-> IntV(4), name |-> "Tile", unit_price |-> StrV(<<178>>), type |-> IntV(1),
            quantity |-> IntV(1)]

LifecycleRecords ==
    { [id |-> IntV(7), created_on |-> IsoDate,
       items |-> [present |-> TRUE, list |-> <<Bolt, Crane>>]],
      [id |-> StrV(S10), created_on |-> SlashDate,
       items |-> [present |-> TRUE, list |-> <<Unpriced>>]],
      [id |-> StrV(S9), created_on |-> JunkDate,
       items |-> [present |-> TRUE, list |-> <<Bolt, Squared>>]] }

LifecycleFiles == {NoFile, [exists |-> TRUE, lines |-> <<S7>>]}
LifecyclePickles == ListsOf(LifecycleRecords) \cup BadPickles

Init == InitWith(LifecycleFiles, LifecyclePickles)
Next == load_data \/ transform_data \/ pickle_replaced(LifecyclePickles)
Spec == Init /\ [][Next]_vars

\* One run on files that stay as they are.
NextRun == load_data \/ transform_data

\* Ordering: invoice and item ids whose order as strings differs from their order
\* as numbers, item ids unique within an invoice, invoice ids that may repeat,
\* and dates that tell rows with equal ids apart.
SortItems == ItemsOf({IntV(2), StrV(S10)}, {"Bolt"}, {StrV(S10)}, {IntV(0)}, {StrV(S2)})
SortPickles ==
    ListsOf(RecordsOf({IntV(7), StrV(S10)}, {IsoDate, JunkDate}, DistinctItemLists(SortItems)))
InitSort == InitWith({NoFile}, SortPickles)
SpecSort == InitSort /\ [][NextRun]_vars

\* Expiry: files with padded and blank lines, ids as int and as str.
ExpiredLines == {S7, <<32, 49, 48, 32>>, <<>>, <<32>>}
ExpiredPickles ==
    ListsOf(RecordsOf({IntV(7), StrV(S7), StrV(S10), StrV(<<>>)}, {IsoDate},
                      {[present |-> TRUE, list |-> <<Bolt, Crane>>]}))
InitExpired == InitWith(FilesOf(ExpiredLines), ExpiredPickles)
SpecExpired == InitExpired /\ [][NextRun]_vars

\* Anomalies: dates and item fields that do not convert, are None, or are absent.
ErrorPickles ==
    ListsOf(RecordsOf({IntV(7)}, {IsoDate, SlashDate, JunkDate, NoneV, MissingV},
                      ItemLists(ItemsOf({IntV(1)}, {"Bolt"},
                                        {StrV(S10), StrV(<<120>>), NoneV}, {IntV(0)},
                                        {StrV(S2), StrV(<<120>>)}))
                      \cup {NoItems}))
InitErrors == InitWith({NoFile}, ErrorPickles)
SpecErrors == InitErrors /\ [][NextRun]_vars

\* Prices: values int() accepts, all digits or not.
PricePickles ==
    ListsOf(RecordsOf({IntV(7), StrV(S10)}, {IsoDate},
                      ItemLists(ItemsOf({IntV(1)}, {"Bolt"},
                                        {StrV(S10), IntV(3), StrV(<<45, 53>>),
                                         StrV(<<32, 53>>), StrV(<<120>>)},
                                        {IntV(0)}, {StrV(S2), IntV(1)}))))
InitPrices == InitWith({NoFile}, PricePickles)
SpecPrices == InitPrices /\ [][NextRun]_vars

\* ------------------------------------------------------------------ claims
Transformed == outcome.op = "transform_data"
Returned == Transformed /\ outcome.exc = NoExc
Rows == outcome.rows
Converts(val) == PyInt(val).exc = NoExc
Parses(val) == val.t = "str" /\ parse(val).exc = NoExc

RECURSIVE SumTotalPrice(_)
SumTotalPrice(rows) ==
    IF rows = <<>> THEN 0 ELSE Head(rows).total_price + SumTotalPrice(Tail(rows))

\* C1: once load_data has succeeded, transform_data raises nothing and returns its
\* rows, whatever the created_on, items, unit_price and quantity of the records.
C1_TransformNeverRaises ==
    (Transformed /\ last_load = "ok") => outcome.exc = NoExc

\* C2, as claimed: transform_data raises the ValueError of line 46 and gives no rows
\* while no load_data call has succeeded, and never raises it once one has.
C2_ValueErrorUntilLoaded ==
    Transformed =>
        /\ ~ever_loaded => (outcome.exc = NotLoaded /\ Rows = <<>>)
        /\ ever_loaded => outcome.exc # NotLoaded

\* C2, amended: transform_data raises the ValueError of line 46, and gives no rows,
\* exactly when self.data is None at the call: always before the first load_data
\* call, never when the latest load_data call succeeded.
C2_ValueErrorIffNoData ==
    Transformed =>
        /\ outcome.exc = NotLoaded <=> data.kind = "none"
        /\ outcome.exc = NotLoaded => Rows = <<>>
        /\ last_load = "never" => outcome.exc = NotLoaded
        /\ last_load = "ok" => outcome.exc # NotLoaded

\* a load_data call that succeeded, a later one that unpickled None and raised,
\* and then the ValueError
C2_Witness ==
    Transformed /\ outcome.exc = NotLoaded /\ ever_loaded /\ last_load = "raised"

KeyLess(a, b) ==
    \/ StrLess(a.invoice_id, b.invoice_id)
    \/ a.invoice_id = b.invoice_id /\ StrLess(a.invoiceitem_id, b.invoiceitem_id)

SameKey(a, b) == a.invoice_id = b.invoice_id /\ a.invoiceitem_id = b.invoiceitem_id

WithKeyOf(s, r) == LET Same(x) == SameKey(x, r) IN SelectSeq(s, Same)

\* C3: the rows returned are in ascending order of (invoice_id, invoiceitem_id) as
\* strings; rows of equal key are in the order flat_data had them, and the rows
\* are those of flat_data, no more and no fewer.
C3_SortedStable ==
    Returned =>
        LET flat == flat_data(data.recs, expired_invoices).rows
        IN  /\ \A i, j \in 1..Len(Rows) : i < j => ~KeyLess(Rows[j], Rows[i])
            /\ Len(Rows) = Len(flat)
            /\ \A i \in 1..Len(flat) : WithKeyOf(Rows, flat[i]) = WithKeyOf(flat, flat[i])

\* rows appended out of order, the item id "10" sorted before "2", and two
\* different rows of one key
C3_Witness ==
    /\ Returned
    /\ Len(Rows) >= 3
    /\ Rows # flat_data(data.recs, expired_invoices).rows
    /\ \E i, j \in 1..Len(Rows) : i < j /\ SameKey(Rows[i], Rows[j]) /\ Rows[i] # Rows[j]
    /\ \E i, j \in 1..Len(Rows) :
           i < j /\ Rows[i].invoiceitem_id = S10 /\ Rows[j].invoiceitem_id = S2

\* C4: a row's is_expired is true exactly when its invoice's id, as a string, is
\* in the set read from the expired-invoices file at construction; every row is
\* the row of a record with that id as string, so an int id meets the line of
\* its digits, and the rows of one invoice agree.
C4_ExpiredIffInSet ==
    Returned =>
        /\ expired_invoices = load_expired_invoices(expired_file)
        /\ \A i \in 1..Len(Rows) :
            /\ Rows[i].is_expired <=> Rows[i].invoice_id \in expired_invoices
            /\ \E k \in 1..Len(data.recs) :
                   PyStr(data.recs[k].id) = Rows[i].invoice_id

\* the int 7 against the line "7", beside an invoice that is not expired
C4_Witness ==
    /\ Returned
    /\ S7 \in expired_invoices
    /\ \E k \in 1..Len(data.recs) : data.recs[k].id = IntV(7)
    /\ \A k \in 1..Len(data.recs) : data.recs[k].id.t = "int" \/ data.recs[k].id.v # S7
    /\ \E i, j \in 1..Len(Rows) :
           /\ Rows[i].invoice_id = S7 /\ Rows[i].is_expired
           /\ ~Rows[j].is_expired

\* C5: every row's percentage_in_invoice lies in [0, 1].
C5_PercentageInUnitInterval ==
    Returned =>
        \A i \in 1..Len(Rows) :
            LET pct == Rows[i].percentage_in_invoice
            IN  pct.den > 0 /\ 0 <= pct.num /\ pct.num <= pct.den

\* C6: for a record none of whose items is skipped and whose invoice total is
\* positive, the total_price of its rows sum to that invoice total.
C6_RowsSumToInvoiceTotal ==
    Returned =>
        \A k \in 1..Len(data.recs) :
            LET rec == data.recs[k]
                Mine(r) == r.invoice_id = PyStr(rec.id)
            IN  (/\ \A m \in 1..Len(data.recs) : m # k => data.recs[m].id # rec.id
                 /\ \A n \in 1..Len(rec.items.list) :
                        /\ Converts(rec.items.list[n].unit_price)
                        /\ Converts(rec.items.list[n].quantity)
                 /\ invoice_total(rec.items.list).n > 0)
                => SumTotalPrice(SelectSeq(Rows, Mine)) = invoice_total(rec.items.list).n

\* C7: the expired set is the set of the file's lines, trimmed, without the empty
\* string, and the empty set when there is no file.
C7_TrimmedNonEmptyLines ==
    expired_invoices =
        IF expired_file.exists
        THEN {Strip(expired_file.lines[i]) : i \in 1..Len(expired_file.lines)} \ {<<>>}
        ELSE {}

ConvertingItems(rec) ==
    LET Good(it) == Converts(it.unit_price) /\ Converts(it.quantity)
    IN  IF rec.items.present THEN SelectSeq(rec.items.list, Good) ELSE <<>>

RECURSIVE CountConverting(_)
CountConverting(recs) ==
    IF recs = <<>> THEN 0
    ELSE Len(ConvertingItems(Head(recs))) + CountConverting(Tail(recs))

\* C8: transform_data gives one row for each item, of a record with items, whose
\* unit_price and quantity both convert, and no other row.
C8_OneRowPerConvertingItem ==
    (Transformed /\ data.kind = "list") =>
        Len(Rows) = CountConverting(data.recs)

DateMarker == StrV(<<49, 57, 57, 57, 45, 49, 50, 45, 51, 49>>)   \* "1999-12-31"
WithDatesMended(d) ==
    [d EXCEPT !.recs = [k \in 1..Len(d.recs) |->
        IF Parses(d.recs[k].created_on) THEN d.recs[k]
        ELSE [d.recs[k] EXCEPT !.created_on = DateMarker]]]

\* C9: a record whose created_on does not parse, is absent or is no str gives the
\* rows it would give with a valid date, with created_on empty; a created_on that
\* parses is given as YYYY-MM-DD.
C9_BadDateOnlyBlanksTheField ==
    (Transformed /\ data.kind = "list") =>
        LET mended == transform_result(WithDatesMended(data), expired_invoices)
        IN  /\ outcome.exc = mended.exc
            /\ Len(Rows) = Len(mended.rows)
            /\ \A i \in 1..Len(Rows) :
                   /\ Rows[i] = [mended.rows[i] EXCEPT !.created_on =
                                    IF @ = DateMarker.v THEN <<>> ELSE @]
                   /\ Rows[i].created_on \in {<<>>, IsoDate.v}

\* C10: transform_data changes neither the loaded data nor the expired set, and
\* each call after a load_data call gives what the first call after it gave.
C10_TransformRepeatable ==
    /\ [](calls >= 1 => outcome = first_outcome)
    /\ [][calls' = calls + 1 =>
            (data' = data /\ expired_invoices' = expired_invoices)]_vars

\* a second call after a successful load_data, returning rows
C10_Witness ==
    calls = 2 /\ last_load = "ok" /\ Returned /\ Len(Rows) >= 2

====
